---- MODULE Spec2Model ----
(***************************************************************************)
(* The tracking forwarder of garmin-ipc                                    *)
(* (packages/ipc/tracking-forwarder/main.js): one invocation of the        *)
(* exported handler main(event, context), from its call to the settlement  *)
(* of the promise it returns.  The handler is an async function: every     *)
(* `await` of an outbound fetch is a point where the invocation is         *)
(* suspended with a call in flight, so the invocation is a small state     *)
(* machine whose positions are the awaits.                                 *)
(***************************************************************************)
EXTENDS Integers, Sequences, FiniteSets, TLC

(***************************************************************************)
(* Bounds of the model.                                                    *)
(***************************************************************************)
\* Largest number of events in the Events array of one request.
MaxEvents == 2

(***************************************************************************)
(* Configuration (process.env, main.js:3-13).  Strings that the code only  *)
(* compares or copies are TLA+ strings; the request token, which the code  *)
(* compares with decoded bytes, is a sequence of character codes.          *)
(***************************************************************************)
\* REQUEST_AUTH_TOKEN = "a"
REQUEST_AUTH_TOKEN == <<97>>
TRACKING_SENDER_DEVICE_IMEI == "300000000000001"
TRACKING_SENDER_INREACH_ADDRESS == "sender@inreach.garmin.com"
TRACKING_RECEIVER_DEVICE_IMEI == "300000000000002"
\* An IMEI of a device that is not the configured sender.
OtherImei == "300000000000003"

\* messageCodes (main.js:20-24)
PositionReport == 0
StartTrack == 10
StopTrack == 12
\* trackingMessageCodes (main.js:32-36)
trackingMessageCodes == {PositionReport, StartTrack, StopTrack}

\* messageCodeToReceiverText (main.js:44-48): the codes it has an entry for,
\* and the entry.  A lookup of any other code is undefined in JavaScript.
MappedCodes == {PositionReport, StartTrack, StopTrack}
messageCodeToReceiverText(code) ==
  CASE code = PositionReport -> "Location Update"
    [] code = StartTrack -> "Tracking Started"
    [] code = StopTrack -> "Tracking Stopped"

(***************************************************************************)
(* Optional values.  JavaScript's undefined is the empty sequence, a       *)
(* present value v is <<v>>.                                               *)
(***************************************************************************)
Undefined == <<>>
Some(v) == <<v>>
IsDefined(o) == o # <<>>
Get(o) == o[1]

(***************************************************************************)
(* String.prototype.split(' ') (main.js:161) on a string given as a        *)
(* sequence of one-character strings: the pieces between the spaces, empty *)
(* pieces included.                                                        *)
(***************************************************************************)
RECURSIVE SplitAcc(_, _, _)
SplitAcc(s, cur, acc) ==
  IF s = <<>> THEN Append(acc, cur)
  ELSE IF Head(s) = " " THEN SplitAcc(Tail(s), <<>>, Append(acc, cur))
  ELSE SplitAcc(Tail(s), Append(cur, Head(s)), acc)

Split(s) == SplitAcc(s, <<>>, <<>>)

(***************************************************************************)
(* Buffer.from(x, 'base64').toString('utf8') (main.js:167).                *)
(***************************************************************************)
Base64Alphabet ==
  << "A","B","C","D","E","F","G","H","I","J","K","L","M","N","O","P",
     "Q","R","S","T","U","V","W","X","Y","Z","a","b","c","d","e","f",
     "g","h","i","j","k","l","m","n","o","p","q","r","s","t","u","v",
     "w","x","y","z","0","1","2","3","4","5","6","7","8","9","+","/" >>

IsBase64Char(c) == \E i \in 1..Len(Base64Alphabet) : Base64Alphabet[i] = c
Sextet(c) == (CHOOSE i \in 1..Len(Base64Alphabet) : Base64Alphabet[i] = c) - 1

\* Node's decoder stops at the first '=' and skips every character that is
\* not of the alphabet.
RECURSIVE Sextets(_)
Sextets(s) ==
  IF s = <<>> \/ Head(s) = "=" THEN <<>>
  ELSE IF IsBase64Char(Head(s)) THEN <<Sextet(Head(s))>> \o Sextets(Tail(s))
  ELSE Sextets(Tail(s))

\* Four sextets make three bytes; a trailing group of three makes two bytes,
\* of two makes one byte, and a single trailing sextet makes none.
RECURSIVE BytesOf(_)
BytesOf(q) ==
  IF Len(q) >= 4
    THEN << q[1] * 4 + q[2] \div 16,
            (q[2] % 16) * 16 + q[3] \div 4,
            (q[3] % 4) * 64 + q[4] >> \o BytesOf(SubSeq(q, 5, Len(q)))
  ELSE IF Len(q) = 3
    THEN << q[1] * 4 + q[2] \div 16, (q[2] % 16) * 16 + q[3] \div 4 >>
  ELSE IF Len(q) = 2
    THEN << q[1] * 4 + q[2] \div 16 >>
  ELSE <<>>

\* toString('utf8'): a byte below 128 is the character of that code; a byte
\* that is not part of a well-formed sequence becomes U+FFFD.  (The headers
\* of this model decode to bytes below 128 only.)
Utf8ToString(bytes) ==
  [i \in 1..Len(bytes) |-> IF bytes[i] < 128 THEN bytes[i] ELSE 65533]

Base64Decode(s) == Utf8ToString(BytesOf(Sextets(s)))

\* `${REQUEST_AUTH_TOKEN}:` (main.js:169); 58 is the code of ':'.
ExpectedToken == REQUEST_AUTH_TOKEN \o <<58>>

(***************************************************************************)
(* isAuthorizedRequest (main.js:154-170).  `authorization` is the optional *)
(* header value, event?.http?.headers?.authorization.                      *)
(***************************************************************************)
\* The variant that lets a request without the header through.
isAuthorizedRequest_AcceptsMissing(authorization) ==
  IF ~IsDefined(authorization) \/ Get(authorization) = <<>> THEN TRUE
  ELSE LET parts == Split(Get(authorization)) IN
       IF Len(parts) < 2 \/ parts[2] = <<>> THEN FALSE
       ELSE Base64Decode(parts[2]) = ExpectedToken

isAuthorizedRequest(authorization) ==
  IF ~IsDefined(authorization) \/ Get(authorization) = <<>> THEN FALSE
  ELSE LET parts == Split(Get(authorization)) IN
       IF Len(parts) < 2 \/ parts[2] = <<>> THEN FALSE
       ELSE Base64Decode(parts[2]) = ExpectedToken

(***************************************************************************)
(* The inputs of an invocation.                                            *)
(***************************************************************************)
\* Values of the authorization header: "Basic YTo=" is the base64 of "a:",
\* "Basic YQ==" of "a" (the colon missing), "Basic  YTo=" has two spaces,
\* "YTo=" has no scheme, "Basic" has no token.
AuthorizationHeaders ==
  { Undefined,
    Some(<<"B","a","s","i","c">>),
    Some(<<"B","a","s","i","c"," ","Y","Q","=","=">>),
    Some(<<"B","a","s","i","c"," ","Y","T","o","=">>),
    Some(<<"B","a","s","i","c"," "," ","Y","T","o","=">>),
    Some(<<"Y","T","o","=">>) }

Methods == {"POST", "GET"}

\* IPCOutboundEventPoint (main.js:404-411)
Point(lat, lon) ==
  [latitude |-> lat, longitude |-> lon, altitude |-> 1500, gpsFix |-> 2,
   course |-> 270, speed |-> 12]

\* IPCOutboundEvent (main.js:386-397), the fields main reads.  `point` is
\* optional: an event of the gateway may come without it.
Ev(imei, code, point) ==
  [imei |-> imei, messageCode |-> code, point |-> point]

EventShapes ==
  { Ev(TRACKING_SENDER_DEVICE_IMEI, PositionReport, Some(Point(10, 20))),
    Ev(TRACKING_SENDER_DEVICE_IMEI, StartTrack, Some(Point(10, 20))),
    Ev(TRACKING_SENDER_DEVICE_IMEI, StopTrack, Some(Point(0, 20))),
    Ev(TRACKING_SENDER_DEVICE_IMEI, PositionReport, Some(Point(-10, 0))),
    Ev(OtherImei, PositionReport, Some(Point(10, 20))),
    Ev(TRACKING_SENDER_DEVICE_IMEI, 3, Some(Point(10, 20))),
    Ev(TRACKING_SENDER_DEVICE_IMEI, PositionReport, Some(Point(0, 0))),
    Ev(TRACKING_SENDER_DEVICE_IMEI, PositionReport, Undefined),
    Ev(OtherImei, 3, Some(Point(0, 0))),
    Ev(OtherImei, StartTrack, Undefined) }

TimeStamps == {100, 200}

DeviceEvents ==
  { [imei |-> e.imei, messageCode |-> e.messageCode, timeStamp |-> t,
     point |-> e.point] : e \in EventShapes, t \in TimeStamps }

Batches == UNION { [1..n -> DeviceEvents] : n \in 0..MaxEvents }

\* The Events member of the request body: absent, present and not an array,
\* or an array of events.
EventsFields ==
  { [kind |-> "undefined", items |-> <<>>], [kind |-> "object", items |-> <<>>] }
  \cup { [kind |-> "array", items |-> b] : b \in Batches }

\* BETTERSTACK_LOGS_HOST and BETTERSTACK_LOGS_BEARER_TOKEN are optional
\* (.env.sample:28-32); an unset variable is the empty string.
LogHosts == {"", "in.logs.betterstack.com"}
LogTokens == {"", "secret"}

\* The execution context: one whose getRemainingTimeInMillis() returns, and
\* one on which the call throws (the member is missing).
Contexts == {"wellFormed", "noRemainingTime"}

\* Outcomes of the forward fetch: a response, or a thrown error with its
\* message ("" is an error without a message).
Responses ==
  { [ok |-> TRUE, status |-> 200, body |-> "{}", json |-> TRUE],
    [ok |-> FALSE, status |-> 422, body |-> "{\"Code\":4}", json |-> TRUE],
    [ok |-> FALSE, status |-> 502, body |-> "Bad Gateway", json |-> FALSE] }
FetchErrors == {"", "fetch failed"}

VARIABLES
  env,            \* the two log sink variables of process.env
  event,          \* main's first argument
  context,        \* main's second argument
  pc,             \* where the invocation is
  outboundEvent,  \* the selected event, once selected
  forwardCalls,   \* the forward POSTs issued, in order
  logCalls,       \* the log POSTs issued, in order
  inflight,       \* outbound calls issued and not yet settled
  response,       \* the outcome of the forward fetch, once it has settled
  pending,        \* the record the next call of log() is to emit
  result          \* the promise main returned

vars == << env, event, context, pc, outboundEvent, forwardCalls, logCalls,
           inflight, response, pending, result >>

NoRecord == [level |-> "", message |-> "", data |-> <<>>]

Init ==
  /\ env \in [BETTERSTACK_LOGS_HOST : LogHosts,
              BETTERSTACK_LOGS_BEARER_TOKEN : LogTokens]
  /\ event \in [http : [method : Methods,
                        headers : [authorization : AuthorizationHeaders]],
                Events : EventsFields]
  /\ context \in Contexts
  /\ pc = "start"
  /\ outboundEvent = Undefined
  /\ forwardCalls = <<>>
  /\ logCalls = <<>>
  /\ inflight = 0
  /\ response = Undefined
  /\ pending = NoRecord
  /\ result = [state |-> "pending", statusCode |-> 0]

(***************************************************************************)
(* How main ends: `return { statusCode: 200 }`, or an exception that       *)
(* leaves the async function, which rejects the promise it returned.       *)
(***************************************************************************)
Return200 ==
  /\ pc' = "done"
  /\ result' = [state |-> "resolved", statusCode |-> 200]

Reject ==
  /\ pc' = "done"
  /\ result' = [state |-> "rejected", statusCode |-> 0]

\* The arguments of a call of log(): the level, the message and the data.
Record(level, message, status, error) ==
  [level |-> level, message |-> message,
   data |-> [status |-> status, error |-> error]]

\* Values of the `error` member of the data: the parsed body of a response,
\* or the text of an exception.
JsonParse(body) == [type |-> "object", text |-> body]
Text(message) == [type |-> "string", text |-> message]

(***************************************************************************)
(* main, lines 85-97: the authorization check, the shape check, and the    *)
(* call of logger.debug.                                                   *)
(***************************************************************************)
\* The variant with && in place of || at line 93.
IsIgnoredShape_And(ev) ==
  ev.http.method # "POST" /\ ev.Events.kind # "array"

\* main.js:93
IsIgnoredShape(ev) ==
  ev.http.method # "POST" \/ ev.Events.kind # "array"

Main ==
  /\ pc = "start"
  /\ IF ~isAuthorizedRequest(event.http.headers.authorization)
       THEN Return200 /\ UNCHANGED pending
     ELSE IF IsIgnoredShape(event)
       THEN Return200 /\ UNCHANGED pending
     ELSE /\ pc' = "debug"
          /\ pending' = Record("debug", "IPC Outbound request received",
                               Undefined, Undefined)
          /\ UNCHANGED result
  /\ UNCHANGED << env, event, context, outboundEvent, forwardCalls, logCalls,
                  inflight, response >>

(***************************************************************************)
(* log (main.js:253-291), called at three places of main: logger.debug     *)
(* (line 97), logger.error inside the try block (line 134) and             *)
(* logger.error inside the catch block (line 140).                         *)
(***************************************************************************)
LogSites == {"debug", "logRejected", "logFailed"}
AwaitOf(site) ==
  CASE site = "debug" -> "awaitDebug"
    [] site = "logRejected" -> "awaitLogRejected"
    [] site = "logFailed" -> "awaitLogFailed"
SiteOf(await) == CHOOSE site \in LogSites : AwaitOf(site) = await
AwaitSites == { AwaitOf(site) : site \in LogSites }

\* main.js:254
LogConfigured(e) ==
  ~(e.BETTERSTACK_LOGS_HOST = "" \/ e.BETTERSTACK_LOGS_BEARER_TOKEN = "")

\* The body of the log POST (main.js:258-275).
LogBody(rec) ==
  [level_string |-> rec.level, message_string |-> rec.message,
   do_function_context |-> context, do_function_event |-> event,
   data |-> rec.data]

\* log() has returned at `site`: main goes on after the await.
Resume(site) ==
  IF site = "debug"
    THEN pc' = "select" /\ UNCHANGED result
    ELSE Return200

\* main.js:254-256: the log sink is not configured, log() returns at once.
LogDisabled ==
  /\ pc \in LogSites
  /\ ~LogConfigured(env)
  /\ Resume(pc)
  /\ pending' = NoRecord
  /\ UNCHANGED << env, event, context, outboundEvent, forwardCalls, logCalls,
                  inflight, response >>

\* main.js:258-275: the record is built before the try block, so an
\* exception of context.getRemainingTimeInMillis() leaves log().  At line 97
\* and at line 140 nothing catches it and main rejects; at line 134 the
\* catch block of main (line 139) takes it and calls logger.error again.
LogThrows ==
  /\ pc \in LogSites
  /\ LogConfigured(env)
  /\ context = "noRemainingTime"
  /\ IF pc = "logRejected"
       THEN /\ pc' = "logFailed"
            /\ pending' = Record("error", "Failed to send IPC Inbound request",
                 Undefined,
                 Some(Text("context.getRemainingTimeInMillis is not a function")))
            /\ UNCHANGED result
       ELSE Reject /\ pending' = NoRecord
  /\ UNCHANGED << env, event, context, outboundEvent, forwardCalls, logCalls,
                  inflight, response >>

\* The log POST issued and not awaited: log() returns while it is in flight.
LogPost_NotAwaited ==
  /\ pc \in LogSites
  /\ LogConfigured(env)
  /\ context = "wellFormed"
  /\ logCalls' = Append(logCalls, LogBody(pending))
  /\ inflight' = inflight + 1
  /\ Resume(pc)
  /\ pending' = NoRecord
  /\ UNCHANGED << env, event, context, outboundEvent, forwardCalls, response >>

\* main.js:277-287: the log POST is issued and awaited.
LogPost ==
  /\ pc \in LogSites
  /\ LogConfigured(env)
  /\ context = "wellFormed"
  /\ logCalls' = Append(logCalls, LogBody(pending))
  /\ inflight' = inflight + 1
  /\ pc' = AwaitOf(pc)
  /\ pending' = NoRecord
  /\ UNCHANGED << env, event, context, outboundEvent, forwardCalls, response,
                  result >>

\* main.js:287-290: the log POST settles; its response is not read and its
\* failure is caught and ignored.
LogSettle ==
  /\ pc \in AwaitSites
  /\ \E outcome \in {"fulfilled", "rejected"} :
       /\ inflight' = inflight - 1
       /\ Resume(SiteOf(pc))
  /\ UNCHANGED << env, event, context, outboundEvent, forwardCalls, logCalls,
                  response, pending >>

(***************************************************************************)
(* main, lines 99-101: [...event.Events].sort((a, b) => a.timeStamp -      *)
(* b.timeStamp).pop().  Array.prototype.sort is stable: elements that      *)
(* compare equal keep their input order.                                   *)
(***************************************************************************)
\* The comparator of line 100.
CompareTimeStamp(a, b) == a.timeStamp - b.timeStamp

\* The variant of an unstable sort: x goes before the elements equal to it.
InsertSorted_BeforeEqual(sorted, x) ==
  LET k == Cardinality({ i \in 1..Len(sorted) : CompareTimeStamp(sorted[i], x) < 0 })
  IN SubSeq(sorted, 1, k) \o <<x>> \o SubSeq(sorted, k + 1, Len(sorted))

\* x, which came after every element of `sorted` in the input, takes its
\* place after the elements that do not compare greater than it.
InsertSorted(sorted, x) ==
  LET k == Cardinality({ i \in 1..Len(sorted) : CompareTimeStamp(sorted[i], x) <= 0 })
  IN SubSeq(sorted, 1, k) \o <<x>> \o SubSeq(sorted, k + 1, Len(sorted))

RECURSIVE SortByTimeStamp(_)
SortByTimeStamp(items) ==
  IF items = <<>> THEN <<>>
  ELSE InsertSorted(SortByTimeStamp(SubSeq(items, 1, Len(items) - 1)),
                    items[Len(items)])

\* Array.prototype.pop: the last element, undefined on an empty array.
Pop(items) == IF items = <<>> THEN Undefined ELSE Some(items[Len(items)])

SelectEvent(items) == Pop(SortByTimeStamp(items))

(***************************************************************************)
(* main, lines 107-123: the three filters on the selected event.           *)
(***************************************************************************)
\* main.js:110
IsFromSender(e) == e.imei = TRACKING_SENDER_DEVICE_IMEI

\* main.js:115
IsTrackingCode(e) == e.messageCode \in trackingMessageCodes

\* The variant with || in place of && at line 121.
IsEmptyLocation_Or(point) == point.latitude = 0 \/ point.longitude = 0

\* main.js:121
IsEmptyLocation(point) == point.latitude = 0 /\ point.longitude = 0

(***************************************************************************)
(* forwardLocationUpdate (main.js:183-215): the message of the forward     *)
(* POST.  A number in a template literal is written in decimal.            *)
(***************************************************************************)
\* main.js:127
ReceiverText(code) ==
  IF code \in MappedCodes THEN messageCodeToReceiverText(code)
  ELSE "Location Update"

\* The variant with latitude and longitude exchanged in the text.
forwardLocationUpdate_Swapped(text, point, now) ==
  [Recipients |-> <<TRACKING_RECEIVER_DEVICE_IMEI>>,
   Sender |-> TRACKING_SENDER_INREACH_ADDRESS,
   Timestamp |-> now,
   Message |-> text \o ": lat " \o ToString(point.longitude)
                    \o " lon " \o ToString(point.latitude),
   ReferencePoint |->
     [LocationType |-> "GPSLocation",
      Altitude |-> point.altitude,
      Speed |-> point.speed,
      Course |-> point.course,
      Coordinate |-> [Latitude |-> point.latitude,
                      Longitude |-> point.longitude]]]

forwardLocationUpdate(text, point, now) ==
  [Recipients |-> <<TRACKING_RECEIVER_DEVICE_IMEI>>,
   Sender |-> TRACKING_SENDER_INREACH_ADDRESS,
   Timestamp |-> now,
   Message |-> text \o ": lat " \o ToString(point.latitude)
                    \o " lon " \o ToString(point.longitude),
   ReferencePoint |->
     [LocationType |-> "GPSLocation",
      Altitude |-> point.altitude,
      Speed |-> point.speed,
      Course |-> point.course,
      Coordinate |-> [Latitude |-> point.latitude,
                      Longitude |-> point.longitude]]]

\* Date.now() (main.js:188): a reading of the wall clock, later than every
\* timeStamp of the inputs.  No step of main compares it with anything.
WallClock == {1000000}

(***************************************************************************)
(* main, lines 99-129: after logger.debug has returned, the selection, the *)
(* filters and the call of forwardLocationUpdate.  Reading point.latitude  *)
(* of an event without a point throws a TypeError outside the try block.   *)
(***************************************************************************)
SelectAndForward ==
  /\ pc = "select"
  /\ LET selected == SelectEvent(event.Events.items) IN
     /\ outboundEvent' = selected
     /\ IF ~IsDefined(selected)
          THEN Return200 /\ UNCHANGED << forwardCalls, inflight >>
        ELSE IF ~IsFromSender(Get(selected))
          THEN Return200 /\ UNCHANGED << forwardCalls, inflight >>
        ELSE IF ~IsTrackingCode(Get(selected))
          THEN Return200 /\ UNCHANGED << forwardCalls, inflight >>
        ELSE IF ~IsDefined(Get(selected).point)
          THEN Reject /\ UNCHANGED << forwardCalls, inflight >>
        ELSE IF IsEmptyLocation(Get(Get(selected).point))
          THEN Return200 /\ UNCHANGED << forwardCalls, inflight >>
        ELSE \E now \in WallClock :
               /\ forwardCalls' = Append(forwardCalls,
                    forwardLocationUpdate(
                      ReceiverText(Get(selected).messageCode),
                      Get(Get(selected).point), now))
               /\ inflight' = inflight + 1
               /\ pc' = "awaitForward"
               /\ UNCHANGED result
  /\ UNCHANGED << env, event, context, logCalls, response, pending >>

(***************************************************************************)
(* main, lines 126-143: the forward fetch settles.                         *)
(***************************************************************************)
Outcomes ==
  { [threw |-> FALSE, ok |-> r.ok, status |-> r.status, body |-> r.body,
     json |-> r.json, message |-> ""] : r \in Responses }
  \cup { [threw |-> TRUE, ok |-> FALSE, status |-> 0, body |-> "",
          json |-> FALSE, message |-> m] : m \in FetchErrors }

\* err.message || 'Unknown error' (main.js:141)
ErrorText(message) == IF message = "" THEN "Unknown error" ELSE message

ForwardSettle ==
  /\ pc = "awaitForward"
  /\ \E o \in Outcomes :
       /\ response' = Some(o)
       /\ inflight' = inflight - 1
       /\ IF o.threw
            \* line 126 throws: the catch block of line 139
            THEN /\ pc' = "logFailed"
                 /\ pending' = Record("error",
                      "Failed to send IPC Inbound request",
                      Undefined, Some(Text(ErrorText(o.message))))
                 /\ UNCHANGED result
          ELSE IF o.ok
            THEN Return200 /\ UNCHANGED pending
          ELSE IF o.json
            \* lines 132-137
            THEN /\ pc' = "logRejected"
                 /\ pending' = Record("error", "IPC Inbound request rejected",
                      Some(o.status), Some(JsonParse(o.body)))
                 /\ UNCHANGED result
          \* result.json() (line 132) rejects with a SyntaxError on a body
          \* that is not JSON: the catch block of line 139
          ELSE /\ pc' = "logFailed"
               /\ pending' = Record("error",
                    "Failed to send IPC Inbound request",
                    Undefined, Some(Text("Unexpected token in JSON")))
               /\ UNCHANGED result
  /\ UNCHANGED << env, event, context, outboundEvent, forwardCalls, logCalls >>

Next ==
  \/ Main
  \/ LogDisabled
  \/ LogThrows
  \/ LogPost
  \/ LogSettle
  \/ SelectAndForward
  \/ ForwardSettle

Spec == Init /\ [][Next]_vars

(***************************************************************************)
(* Properties.  The request is described here in the words of the          *)
(* specification, not with the operators of main.                          *)
(***************************************************************************)
Authorization == event.http.headers.authorization
Items == event.Events.items
Resolved200 == [state |-> "resolved", statusCode |-> 200]

\* The header is missing, has no second space-separated token, or its second
\* token does not decode to "<REQUEST_AUTH_TOKEN>:".
Unauthorized ==
  \/ ~IsDefined(Authorization)
  \/ LET tokens == Split(Get(Authorization)) IN
       \/ Len(tokens) < 2
       \/ tokens[2] = <<>>
       \/ Base64Decode(tokens[2]) # REQUEST_AUTH_TOKEN \o <<58>>

\* The index of the event with the greatest timeStamp, the last in input
\* order of those that share it.
LatestIndex(items) ==
  CHOOSE i \in 1..Len(items) :
    \A j \in 1..Len(items) :
      /\ items[j].timeStamp <= items[i].timeStamp
      /\ j > i => items[j].timeStamp < items[i].timeStamp

\* The three content filters on an event.
PassesFilters(e) ==
  /\ e.imei = TRACKING_SENDER_DEVICE_IMEI
  /\ e.messageCode \in {0, 10, 12}
  /\ IsDefined(e.point)
  /\ ~(Get(e.point).latitude = 0 /\ Get(e.point).longitude = 0)

\* The request is authorized, well-shaped, and its latest event passes the
\* filters.
ShouldForward ==
  /\ ~Unauthorized
  /\ event.http.method = "POST"
  /\ event.Events.kind = "array"
  /\ Items # <<>>
  /\ PassesFilters(Items[LatestIndex(Items)])

\* main has gone past the filters of lines 103-123.
PastFilters ==
  IsDefined(outboundEvent) /\ pc \notin {"start", "debug", "awaitDebug", "select"}

\* C2: an unauthorized request ends at main's first step with
\* {statusCode: 200}; no forward POST and no log POST is issued, whatever
\* the method and the events are.
C2_UnauthorizedIsNoOp ==
  Unauthorized =>
    /\ forwardCalls = <<>>
    /\ logCalls = <<>>
    /\ inflight = 0
    /\ pc \in {"start", "done"}
    /\ pc = "done" => result = Resolved200

\* An unauthorized POST whose latest event passes every filter, with the log
\* sink configured, has returned.
C2_Witness ==
  /\ Unauthorized
  /\ pc = "done"
  /\ event.http.method = "POST"
  /\ event.Events.kind = "array"
  /\ Items # <<>>
  /\ PassesFilters(Items[LatestIndex(Items)])
  /\ env.BETTERSTACK_LOGS_HOST # "" /\ env.BETTERSTACK_LOGS_BEARER_TOKEN # ""

\* C3: an authorized request whose method is not POST, or whose Events is
\* absent or not an array, returns {statusCode: 200} with no forward POST;
\* an authorized POST with an empty Events array issues no forward POST.
C3_OtherShapesAreNoOp ==
  /\ ((event.http.method # "POST" \/ event.Events.kind # "array") /\ ~Unauthorized)
       => /\ forwardCalls = <<>>
          /\ pc \in {"start", "done"}
          /\ pc = "done" => result = Resolved200
  /\ (event.http.method = "POST" /\ event.Events.kind = "array"
        /\ Items = <<>> /\ ~Unauthorized)
       => forwardCalls = <<>>

\* An authorized GET whose latest event passes every filter has returned.
C3_Witness ==
  /\ ~Unauthorized
  /\ event.http.method = "GET"
  /\ event.Events.kind = "array"
  /\ Items # <<>>
  /\ PassesFilters(Items[LatestIndex(Items)])
  /\ pc = "done"

\* C4: a forward POST is issued only if the selected event is of the sender
\* device, has a tracking code and a point other than (0, 0); a point with
\* exactly one of latitude and longitude 0 is not filtered.
C4_ForwardOnlyIfFiltersPass ==
  /\ forwardCalls # <<>> =>
       /\ IsDefined(outboundEvent)
       /\ PassesFilters(Get(outboundEvent))
  /\ ( /\ PastFilters
       /\ PassesFilters(Get(outboundEvent))
       /\ (Get(Get(outboundEvent).point).latitude = 0
             \/ Get(Get(outboundEvent).point).longitude = 0) )
       => Len(forwardCalls) = 1

\* A forward POST was issued for an event whose latitude is 0.
C4_Witness ==
  /\ Len(forwardCalls) = 1
  /\ IsDefined(outboundEvent)
  /\ Get(Get(outboundEvent).point).latitude = 0
  /\ Get(Get(outboundEvent).point).longitude # 0

\* C5: the event main selects from a non-empty batch is the one with the
\* greatest timeStamp, the last in input order of those that share it, and
\* only that event decides the forward POST: when it fails a filter no
\* forward POST is issued, whatever the older events are.
C5_LatestEventDecides ==
  /\ IsDefined(outboundEvent) =>
       /\ Items # <<>>
       /\ Get(outboundEvent) = Items[LatestIndex(Items)]
  /\ (pc \in {"awaitForward", "logRejected", "awaitLogRejected", "logFailed",
              "awaitLogFailed"}) => IsDefined(outboundEvent)
  /\ forwardCalls # <<>> =>
       /\ Items # <<>>
       /\ PassesFilters(Items[LatestIndex(Items)])

\* Two events share the greatest timeStamp; the first passes every filter,
\* the second is of another device; main has returned without a forward.
C5_Witness ==
  /\ pc = "done"
  /\ Len(Items) = 2
  /\ Items[1].timeStamp = Items[2].timeStamp
  /\ PassesFilters(Items[1])
  /\ Items[2].imei # TRACKING_SENDER_DEVICE_IMEI
  /\ outboundEvent = Some(Items[2])
  /\ forwardCalls = <<>>

\* The label of the specification for a tracking code.
Label(code) ==
  CASE code = 0 -> "Location Update"
    [] code = 10 -> "Tracking Started"
    [] code = 12 -> "Tracking Stopped"

\* C6: the forwarded message has the configured receiver as its only
\* recipient, the configured sender address, locationType "GPSLocation",
\* the coordinate, altitude, speed and course of the latest event's point,
\* and the text "<Label>: lat <latitude> lon <longitude>".
C6_ForwardedMessage ==
  forwardCalls # <<>> =>
    LET m == forwardCalls[1]
        e == Items[LatestIndex(Items)]
        p == Get(e.point)
    IN /\ m.Recipients = <<TRACKING_RECEIVER_DEVICE_IMEI>>
       /\ m.Sender = TRACKING_SENDER_INREACH_ADDRESS
       /\ m.ReferencePoint.LocationType = "GPSLocation"
       /\ m.ReferencePoint.Coordinate.Latitude = p.latitude
       /\ m.ReferencePoint.Coordinate.Longitude = p.longitude
       /\ m.ReferencePoint.Altitude = p.altitude
       /\ m.ReferencePoint.Speed = p.speed
       /\ m.ReferencePoint.Course = p.course
       /\ m.Message = Label(e.messageCode) \o ": lat " \o ToString(p.latitude)
                        \o " lon " \o ToString(p.longitude)
       /\ (e.messageCode = 0 /\ p.latitude = 10 /\ p.longitude = 20)
            => m.Message = "Location Update: lat 10 lon 20"
       /\ (e.messageCode = 12 /\ p.latitude = 0 /\ p.longitude = 20)
            => m.Message = "Tracking Stopped: lat 0 lon 20"

\* A StartTrack event at (10, 20) was forwarded.
C6_Witness ==
  /\ Len(forwardCalls) = 1
  /\ forwardCalls[1].Message = "Tracking Started: lat 10 lon 20"
  /\ forwardCalls[1].ReferencePoint.Coordinate = [Latitude |-> 10, Longitude |-> 20]

\* C1: every invocation ends by resolving to {statusCode: 200}; main never
\* rejects.
C1_AlwaysResolves200 ==
  pc = "done" => result = Resolved200

\* C7: exactly one forward POST is issued when the request is authorized,
\* well-shaped and its latest event passes the filters, whatever the outcome
\* of the POST; no forward POST is issued in any other invocation, and never
\* more than one.
C7_ExactlyOneForward ==
  /\ Len(forwardCalls) <= 1
  /\ forwardCalls # <<>> => ShouldForward
  /\ (pc = "done" /\ ShouldForward) => Len(forwardCalls) = 1

\* The log POSTs issued with the given level.
LogsAt(level) ==
  { logCalls[i] : i \in { j \in 1..Len(logCalls) : logCalls[j].level_string = level } }

\* C8: with the log sink configured, when main has returned after a forward
\* POST that completed with a non-success status, an error record with the
\* response's status and body was emitted; after a forward call that threw,
\* an error record with the exception's message was emitted.
C8_ForwardFailureIsLogged ==
  ( /\ pc = "done"
    /\ env.BETTERSTACK_LOGS_HOST # "" /\ env.BETTERSTACK_LOGS_BEARER_TOKEN # ""
    /\ IsDefined(response) )
  => LET o == Get(response) IN
     /\ (~o.threw /\ ~o.ok) =>
          \E r \in LogsAt("error") :
            /\ r.data.status = Some(o.status)
            /\ IsDefined(r.data.error)
            /\ Get(r.data.error).text = o.body
     /\ o.threw =>
          \E r \in LogsAt("error") :
            /\ IsDefined(r.data.error)
            /\ Get(r.data.error).text
                 = (IF o.message = "" THEN "Unknown error" ELSE o.message)

\* C9 as stated: at most two outbound calls in one invocation, never two in
\* flight at the same time.
C9_AtMostTwoCalls ==
  /\ Len(forwardCalls) + Len(logCalls) <= 2
  /\ inflight <= 1

\* C9, amended: at most three outbound calls in one invocation (at most one
\* forward POST and at most two log POSTs: the debug record before the
\* forward and one error record after it), issued one after the other: a
\* call is in flight only while main is suspended awaiting it.
C9_AtMostThreeCallsSequential ==
  /\ Len(forwardCalls) + Len(logCalls) <= 3
  /\ Len(forwardCalls) <= 1
  /\ Len(logCalls) <= 2
  /\ inflight <= 1
  /\ inflight = 1 <=> pc \in AwaitSites \cup {"awaitForward"}

\* The debug record, the forward POST and an error record were all issued.
C9_Witness ==
  /\ pc = "done"
  /\ Len(forwardCalls) = 1
  /\ Len(logCalls) = 2
  /\ logCalls[1].level_string = "debug"
  /\ logCalls[2].level_string = "error"

\* C10: a failure while a log record is emitted never affects the result:
\* for every request main resolves to {statusCode: 200} and issues the
\* forward POST exactly when the request calls for it, as it does with
\* logging disabled; with the log host or the log token not configured no
\* log POST is issued.  (Requests whose latest event has no point are left
\* out: for them main fails with logging disabled too.)
C10_LoggingNeverAffectsOutcome ==
  /\ ( /\ pc = "done"
       /\ ~( /\ event.Events.kind = "array"
             /\ Items # <<>>
             /\ ~IsDefined(Items[LatestIndex(Items)].point) ) )
     => /\ result = Resolved200
        /\ forwardCalls # <<>> <=> ShouldForward
  /\ (env.BETTERSTACK_LOGS_HOST = "" \/ env.BETTERSTACK_LOGS_BEARER_TOKEN = "")
       => logCalls = <<>>

====
